---------------------------- MODULE Spec2Model ----------------------------
(***************************************************************************)
(* A model of the Raspberry Pi orchestrator of PhiDung-hub/MDP_RPI.        *)
(*                                                                         *)
(* The orchestrator is a set of worker processes (command_follower,        *)
(* rpi_action, recv_stm, recv_android, android_sender) that share manager  *)
(* queues, a motion lock and a few events.  Every worker is modelled by    *)
(* its program counter pc[w] and its local variables; every action below   *)
(* is one step of one worker between two operations on shared state, so    *)
(* that TLC explores every interleaving of the workers.                    *)
(*                                                                         *)
(* Two drafts of the orchestrator are modelled:                            *)
(*   src/Task1.py          movement_lock is a manager.Lock      (Spec)     *)
(*   src/Task1_upgrade.py  lock_stm is a Semaphore(1)           (SpecUp)   *)
(* The actions of Task1_upgrade.py carry the prefix up_.                   *)
(***************************************************************************)
EXTENDS Integers, Sequences, FiniteSets, TLC

(***************************************************************************)
(* Bounds of the model.                                                    *)
(***************************************************************************)
\* number of reads of the control link (android_link.recv) in a run
MaxInbound == 2

\* the failures of the control link (calls of android_dropped.set())
MaxDrops == 2

\* largest value of lock_stm at which the motion controller still sends an
\* acknowledgment that answers no command
MaxValue == 2

(***************************************************************************)
(* Strings the code inspects character by character are sequences of       *)
(* one-character strings, so that startswith/replace/split are computed.   *)
(***************************************************************************)
FW010 == <<"F", "W", "0", "1", "0">>
BW010 == <<"B", "W", "0", "1", "0">>
FL000 == <<"F", "L", "0", "0", "0">>
SSSSS == <<"S", "S", "S", "S", "S">>
SNAP1_4 == <<"S", "N", "A", "P", "1", "_", "4">>
SNAP == <<"S", "N", "A", "P">>
ACK == <<"A", "C", "K">>
\* a serial message that is no acknowledgment
CHATTER == <<"O", "K">>
NA == <<"N", "A">>
SYM == <<"3", "9">>

\* str.startswith(prefix)
StartsWith(s, p) == Len(s) >= Len(p) /\ SubSeq(s, 1, Len(p)) = p

\* str.startswith(tuple of prefixes)
StartsWithAny(s, ps) == \E i \in 1..Len(ps) : StartsWith(s, ps[i])

\* command.replace("SNAP", "") for a command in which SNAP occurs only as
\* its prefix (every snapshot command of the plans below)
ReplaceSNAP(s) == IF StartsWith(s, SNAP) THEN SubSeq(s, Len(SNAP) + 1, Len(s)) ELSE s

\* s.split("_"): the list of the parts of s between underscores
RECURSIVE Split(_)
Split(s) ==
    IF \A i \in 1..Len(s) : s[i] # "_"
    THEN <<s>>
    ELSE LET k == CHOOSE i \in 1..Len(s) :
                      s[i] = "_" /\ \A j \in 1..(i - 1) : s[j] # "_"
         IN  <<SubSeq(s, 1, k - 1)>> \o Split(SubSeq(s, k + 1, Len(s)))

\* the motion prefixes without the prefix SS of the stop command
stm32_prefixes_without_SS ==
    << <<"F", "W">>, <<"B", "W">>, <<"F", "L">>, <<"F", "R">>,
       <<"B", "L">>, <<"B", "R">> >>

\* Task1.py:273, the opcodes command_follower sends straight to the STM32
stm32_prefixes == << <<"F", "W">>, <<"B", "W">>, <<"F", "L">>, <<"F", "R">>,
                     <<"B", "L">>, <<"B", "R">>, <<"S", "S">> >>

\* a dict: a function whose domain is the set of its keys
EmptyDict == [k \in {} |-> 0]

\* d[k] = v
DictSet(d, k, v) == [j \in (DOMAIN d) \cup {k} |-> IF j = k THEN v ELSE d[j]]

\* a put at the head of the queue: the item jumps the queue (LIFO)
QueuePutFront(q, x) == <<x>> \o q

\* Queue.put(x) on a FIFO manager.Queue
QueuePut(q, x) == Append(q, x)

\* path[1:], the checkpoints of a plan response
Checkpoints(path) == IF path = <<>> THEN <<>> ELSE Tail(path)

(***************************************************************************)
(* The inputs of a run.                                                    *)
(***************************************************************************)
Pose(x, y, d) == [x |-> x, y |-> y, d |-> d]

Obstacle(id, x, y, d) == [id |-> id, x |-> x, y |-> y, d |-> d]

\* the "value" of the obstacles messages the remote control sends
ObstacleValue1 == [obstacles |-> <<Obstacle(1, 5, 11, 4)>>]

ObstacleValue2 == [obstacles |-> <<Obstacle(1, 6, 11, 4), Obstacle(2, 8, 6, 6)>>]

\* What android_link.recv() does: it raises OSError or returns text.  kind
\* tells how the text parses: "invalid" is no JSON, "str" a JSON string,
\* "dict" a JSON object with the keys cat and value (value is the obstacle
\* list of an obstacles message and the text of a control message).
Inbound(kind, cat, value, text) ==
    [kind |-> kind, cat |-> cat, value |-> value, text |-> text]

\* the JSON object {"cat": "obstacles", "value": v}
ObstaclesMessage(v) == Inbound("dict", "obstacles", v, "")

\* the JSON object {"cat": "control", "value": text}
ControlMessage(text) == Inbound("dict", "control", [obstacles |-> <<>>], text)

\* before the first read of the control link
NoInbound == Inbound("none", "", [obstacles |-> <<>>], "")

InboundMessages ==
    { Inbound("oserror", "", [obstacles |-> <<>>], ""),
      Inbound("invalid", "", [obstacles |-> <<>>], ""),
      Inbound("str", "", [obstacles |-> <<>>], "START"),
      ControlMessage("START"), ControlMessage("start"), ControlMessage("STOP") }
    \cup { ObstaclesMessage(v) : v \in {ObstacleValue1, ObstacleValue2} }

\* str.upper() on the control texts above
Upper(text) == IF text = "start" THEN "START" ELSE text

\* the responses of the path-planning service: a failure, or a plan
PlanResponses ==
    { [status_code |-> 500, commands |-> <<>>, path |-> <<>>],
      [status_code |-> 200,
       commands |-> <<FW010, SNAP1_4, BW010, SSSSS>>,
       path |-> <<Pose(1, 1, 0), Pose(2, 1, 0), Pose(1, 1, 0)>>],
      [status_code |-> 200,
       commands |-> <<FL000, SSSSS>>,
       path |-> <<Pose(1, 1, 0), Pose(0, 2, 6)>>] }

\* a failure and a short plan, for the runs with two obstacle lists
ShortPlanResponses ==
    { [status_code |-> 500, commands |-> <<>>, path |-> <<>>],
      [status_code |-> 200,
       commands |-> <<SNAP1_4, FW010>>,
       path |-> <<Pose(1, 1, 0), Pose(2, 1, 0)>>] }

\* a plan with a command that command_follower does not recognise
TURN == <<"T", "U", "R", "N">>

UnknownPlanResponses ==
    { [status_code |-> 200,
       commands |-> <<FW010, SNAP1_4, TURN, BW010>>,
       path |-> <<Pose(1, 1, 0), Pose(2, 1, 0), Pose(1, 1, 0)>>] }

\* the response held by a worker that is not inside request_algo
NoResponse == [status_code |-> 0, commands |-> <<>>, path |-> <<>>]

\* the responses of the vision service: a failure, "not available", a symbol
VisionResponses ==
    { [status_code |-> 500, image_id |-> <<>>],
      [status_code |-> 200, image_id |-> NA],
      [status_code |-> 200, image_id |-> SYM] }

NoVision == [status_code |-> 0, image_id |-> <<>>]

\* the arguments of a request_algo call
AlgoRequest(obs, x, y, d, retrying) ==
    [obstacles |-> obs, robot_x |-> x, robot_y |-> y, robot_dir |-> d,
     retrying |-> retrying]

NoRequest == AlgoRequest(<<>>, 0, 0, 0, FALSE)

Workers == {"cf", "ra", "rs", "recv", "sender"}

\* the workers that contain a call of request_algo
AlgoCallers == {"cf", "ra"}

VARIABLES
    pc,                 \* where each worker is
    command,            \* command_follower: the command it dequeued
    snap_arg,           \* rpi_action: obstacle_id_with_signal of snap_and_rec
    snap_resp,          \* rpi_action: the vision response in snap_and_rec
    algo_req,           \* per caller: the arguments of its request_algo call
    algo_resp,          \* per caller: the plan response in request_algo
    algo_i,             \* per caller: the index of the refill loops
    command_queue, path_queue, action_queue, android_queue,
    start_movement, android_dropped,
    movement_lock,      \* Task1.py: TRUE while the manager.Lock is held
    lock_stm,           \* Task1_upgrade.py: the value of Semaphore(1)
    obstacles, success_obstacles, failed_obstacles,
    current_location, failed_attempt,
    stm_unacked,        \* commands the motion controller has not acknowledged
    n_inbound,          \* reads of the control link so far
    sent,               \* history: the commands sent on the serial link
    plan_requests,      \* history: the requests made to the planning service
    plans,              \* history: the successful plan responses
    vision_results,     \* history: the successful vision responses
    stm_message,        \* recv_stm: the serial message it received last
    unfinished_tasks,   \* Task2_backup.py: puts without a task_done
    dists,              \* Task2_backup.py: distances the ACKs carried
    image_1, image_2,   \* Task2_backup.py, recv_android: its snapshots' results
    t2_batch,           \* Task2_backup.py, recv_android: commands yet to put
    t2_stage,           \* Task2_backup.py, recv_android: the snapshot it is at
    inbound,            \* recv_android: what android_link.recv() gave last
    main,               \* the main process: where it is in reconnect_android
    late_drop,          \* history: android_dropped.set() between the restart
                        \* of the link workers and the clear() of the cycle
    n_sets,             \* history: the calls of android_dropped.set()
    n_signals,          \* history: the calls that found the event clear
    n_cycles,           \* history: the times android_dropped.wait() returned
    n_reconnected       \* history: the "You are reconnected!" messages put

locals == <<command, snap_arg, snap_resp, algo_req, algo_resp, algo_i>>
queues == <<command_queue, path_queue, action_queue, android_queue>>
events == <<start_movement, android_dropped>>
locks == <<movement_lock, lock_stm>>
session == <<obstacles, success_obstacles, failed_obstacles, current_location,
             failed_attempt>>
environment == <<stm_unacked, n_inbound>>
history == <<sent, plan_requests, plans, vision_results>>
task2 == <<unfinished_tasks, dists, image_1, image_2, t2_batch, t2_stage>>
drops == <<late_drop, n_sets, n_signals>>
link == <<inbound, main, drops, n_cycles, n_reconnected>>
vars == <<pc, locals, queues, events, locks, session, environment, history,
          stm_message, task2, link>>

AndroidMessage(cat, value) == [cat |-> cat, value |-> value]

PiAction(cat, value) == [cat |-> cat, value |-> value]

Goto(w, label) == pc' = [pc EXCEPT ![w] = label]

\* a failure of the control link that is counted but raises no signal
SetDroppedSilently ==
    /\ n_sets < MaxDrops
    /\ n_sets' = n_sets + 1
    /\ UNCHANGED <<android_dropped, n_signals, late_drop>>

\* self.android_dropped.set(), which android_sender and recv_android call
\* when the control link raises OSError
SetDropped ==
    /\ n_sets < MaxDrops
    /\ android_dropped' = TRUE
    /\ n_sets' = n_sets + 1
    /\ n_signals' = IF android_dropped THEN n_signals ELSE n_signals + 1
    /\ late_drop' = (late_drop \/ main \in {"put", "clear"})

(***************************************************************************)
(* The state after RaspberryPi() and start(): the queues are empty but for *)
(* start()'s two greetings, no event is set, no lock is held.              *)
(***************************************************************************)
Constructed ==
    /\ command = <<>>
    /\ snap_arg = <<>>
    /\ snap_resp = NoVision
    /\ algo_req = [w \in AlgoCallers |-> NoRequest]
    /\ algo_resp = [w \in AlgoCallers |-> NoResponse]
    /\ algo_i = [w \in AlgoCallers |-> 1]
    /\ command_queue = <<>>
    /\ path_queue = <<>>
    /\ action_queue = <<>>
    /\ android_queue = << AndroidMessage("info", "Connected to the RPi!"),
                          AndroidMessage("info", "Robot is ready!") >>
    /\ android_dropped = FALSE
    /\ movement_lock = FALSE
    /\ lock_stm = 1
    /\ obstacles = EmptyDict
    /\ success_obstacles = <<>>
    /\ failed_obstacles = <<>>
    /\ current_location = EmptyDict
    /\ failed_attempt = FALSE
    /\ stm_unacked = 0
    /\ n_inbound = 0
    /\ sent = <<>>
    /\ plan_requests = <<>>
    /\ plans = <<>>
    /\ vision_results = <<>>
    /\ stm_message = <<>>
    /\ unfinished_tasks = 0
    /\ dists = <<>>
    /\ image_1 = <<>>
    /\ image_2 = <<>>
    /\ t2_batch = <<>>
    /\ t2_stage = 0
    /\ inbound = NoInbound
    /\ late_drop = FALSE
    /\ n_sets = 0
    /\ n_signals = 0
    /\ n_cycles = 0
    /\ n_reconnected = 0

\* the workers of Task1.py at the top of their loops
Task1Start ==
    [w \in Workers |->
        CASE w = "cf" -> "get"
          [] w = "ra" -> "top"
          [] w = "rs" -> "recv"
          [] w = "recv" -> "recv"
          [] w = "sender" -> "get"]

Init ==
    /\ Constructed
    /\ start_movement = FALSE
    /\ pc = Task1Start
    /\ main = "done"

(***************************************************************************)
(* src/Task1.py, the operations shared by several workers.                 *)
(***************************************************************************)

\* The pc a worker continues at after its movement_lock.release():
\* recv_stm pops the checkpoint (241), snap_and_rec reports the result
\* (361), command_follower goes back to the top of its loop (312, 316).
AfterRelease(w) ==
    CASE w = "rs" -> "pop"
      [] w = "ra" -> "snap_put"
      [] OTHER -> "get"

\* movement_lock.release() (238, 352, 311, 315).  Releasing a
\* threading.Lock that is not held raises RuntimeError in the caller, which
\* ends the worker.
release(w) ==
    /\ pc[w] = "release"
    /\ IF movement_lock
       THEN /\ movement_lock' = FALSE
            /\ Goto(w, AfterRelease(w))
       ELSE /\ Goto(w, "dead")
            /\ UNCHANGED movement_lock
    /\ UNCHANGED <<link, stm_message, task2, locals, queues, events, lock_stm,
                   session, environment, history>>

\* The pc a worker continues at when request_algo returns: rpi_action goes
\* back to the top of its loop, command_follower releases the lock (311).
AfterAlgo(w) == IF w = "ra" THEN "top" ELSE "release"

\* request_algo clearing the queues whatever the status of the response
request_algo_post_clearing(w, responses) ==
    /\ pc[w] = "algo_post"
    /\ android_queue' = QueuePut(android_queue,
                                 AndroidMessage("info", "Requesting from algo..."))
    /\ plan_requests' = Append(plan_requests, algo_req[w])
    /\ \E response \in responses :
          /\ algo_resp' = [algo_resp EXCEPT ![w] = response]
          /\ Goto(w, "clear_cmd")
          /\ plans' = IF response.status_code # 200
                      THEN plans ELSE Append(plans, response)
    /\ UNCHANGED <<link, stm_message, task2, command, snap_arg, snap_resp,
                   algo_req, algo_i, command_queue, path_queue, action_queue,
                   events, locks, session, environment, sent, vision_results>>

\* request_algo, 375-403: the info message, the POST and the early return
\* on a status other than 200; responses are the answers the planning
\* service may give.
request_algo_post_from(w, responses) ==
    /\ pc[w] = "algo_post"
    /\ android_queue' = QueuePut(android_queue,
                                 AndroidMessage("info", "Requesting from algo..."))
    /\ plan_requests' = Append(plan_requests, algo_req[w])
    /\ \E response \in responses :
          /\ algo_resp' = [algo_resp EXCEPT ![w] = response]
          /\ IF response.status_code # 200
             THEN /\ Goto(w, AfterAlgo(w))
                  /\ UNCHANGED plans
             ELSE /\ Goto(w, "clear_cmd")
                  /\ plans' = Append(plans, response)
    /\ UNCHANGED <<link, stm_message, task2, command, snap_arg, snap_resp,
                   algo_req, algo_i, command_queue, path_queue, action_queue,
                   events, locks, session, environment, sent, vision_results>>

\* request_algo with any of the responses of PlanResponses
request_algo_post(w) == request_algo_post_from(w, PlanResponses)

\* clear_queues, 437: while not self.command_queue.empty()
clear_queues_cmd_empty(w) ==
    /\ pc[w] = "clear_cmd"
    /\ Goto(w, IF command_queue = <<>> THEN "clear_path" ELSE "clear_cmd_get")
    /\ UNCHANGED <<link, stm_message, task2, locals, queues, events, locks,
                   session, environment, history>>

\* clear_queues, 438: self.command_queue.get(), which blocks on an empty queue
clear_queues_cmd_get(w) ==
    /\ pc[w] = "clear_cmd_get"
    /\ command_queue # <<>>
    /\ command_queue' = Tail(command_queue)
    /\ Goto(w, "clear_cmd")
    /\ UNCHANGED <<link, stm_message, task2, locals, path_queue, action_queue,
                   android_queue, events, locks, session, environment,
                   history>>

\* clear_queues, 439: while not self.path_queue.empty()
clear_queues_path_empty(w) ==
    /\ pc[w] = "clear_path"
    /\ Goto(w, IF path_queue # <<>> THEN "clear_path_get"
               ELSE IF algo_resp[w].commands # <<>> THEN "put_cmd"
               ELSE IF Checkpoints(algo_resp[w].path) # <<>> THEN "put_path"
               ELSE AfterAlgo(w))
    /\ algo_i' = [algo_i EXCEPT ![w] = 1]
    /\ UNCHANGED <<link, stm_message, task2, command, snap_arg, snap_resp,
                   algo_req, algo_resp, queues, events, locks, session,
                   environment, history>>

\* clear_queues, 440: self.path_queue.get()
clear_queues_path_get(w) ==
    /\ pc[w] = "clear_path_get"
    /\ path_queue # <<>>
    /\ path_queue' = Tail(path_queue)
    /\ Goto(w, "clear_path")
    /\ UNCHANGED <<link, stm_message, task2, locals, command_queue,
                   action_queue, android_queue, events, locks, session,
                   environment, history>>

\* request_algo, 415-416: for c in commands: self.command_queue.put(c); one
\* put per step, the loop being left after the last one
request_algo_put_cmd(w) ==
    /\ pc[w] = "put_cmd"
    /\ command_queue' = QueuePut(command_queue, algo_resp[w].commands[algo_i[w]])
    /\ IF algo_i[w] < Len(algo_resp[w].commands)
       THEN /\ algo_i' = [algo_i EXCEPT ![w] = @ + 1]
            /\ UNCHANGED pc
       ELSE /\ algo_i' = [algo_i EXCEPT ![w] = 1]
            /\ Goto(w, IF Checkpoints(algo_resp[w].path) = <<>>
                       THEN AfterAlgo(w) ELSE "put_path")
    /\ UNCHANGED <<link, stm_message, task2, command, snap_arg, snap_resp,
                   algo_req, algo_resp, path_queue, action_queue,
                   android_queue, events, locks, session, environment,
                   history>>

\* request_algo, 419-420: for p in path[1:]: self.path_queue.put(p)
request_algo_put_path(w) ==
    /\ pc[w] = "put_path"
    /\ path_queue' = QueuePut(path_queue, Checkpoints(algo_resp[w].path)[algo_i[w]])
    /\ IF algo_i[w] < Len(Checkpoints(algo_resp[w].path))
       THEN /\ algo_i' = [algo_i EXCEPT ![w] = @ + 1]
            /\ UNCHANGED pc
       ELSE /\ algo_i' = [algo_i EXCEPT ![w] = 1]
            /\ Goto(w, AfterAlgo(w))
    /\ UNCHANGED <<link, stm_message, task2, command, snap_arg, snap_resp,
                   algo_req, algo_resp, command_queue, action_queue,
                   android_queue, events, locks, session, environment,
                   history>>

(***************************************************************************)
(* src/Task1.py, command_follower (262-322).                               *)
(***************************************************************************)

\* 268: command = self.command_queue.get()
command_follower_get ==
    /\ pc["cf"] = "get"
    /\ command_queue # <<>>
    /\ command' = Head(command_queue)
    /\ command_queue' = Tail(command_queue)
    /\ Goto("cf", "wait")
    /\ UNCHANGED <<link, stm_message, task2, snap_arg, snap_resp, algo_req,
                   algo_resp, algo_i, path_queue, action_queue,
                   android_queue, events, locks, session, environment,
                   history>>

\* 296-300: the obstacle list of the retry, the failed obstacles and then the
\* successful ones with d set to 8
RetryObstacles ==
    failed_obstacles \o [i \in 1..Len(success_obstacles) |->
                            [success_obstacles[i] EXCEPT !.d = 8]]

\* 270-322: self.start_movement.wait(), then the if/elif chain on the
\* command, in the order of the code.  A motion command goes on to acquire
\* the lock; a snapshot command becomes a "snap" action; the end-of-path
\* branch either starts the retry (294-310; reading current_location before
\* any ACK raises KeyError) or clears start_movement (314); any other
\* command raises.
command_follower_dispatch ==
    /\ pc["cf"] = "wait"
    /\ start_movement
    /\ IF StartsWithAny(command, stm32_prefixes)
       THEN /\ Goto("cf", "acquire")
            /\ UNCHANGED <<action_queue, start_movement, failed_attempt,
                           algo_req>>
       ELSE IF StartsWith(command, SNAP)
       THEN /\ action_queue' = QueuePut(action_queue,
                                        PiAction("snap", ReplaceSNAP(command)))
            /\ Goto("cf", "get")
            /\ UNCHANGED <<start_movement, failed_attempt, algo_req>>
       ELSE IF command = SSSSS
       THEN IF Len(failed_obstacles) # 0 /\ failed_attempt = FALSE
            THEN /\ failed_attempt' = TRUE
                 /\ IF DOMAIN current_location = {"x", "y", "d"}
                    THEN /\ algo_req' = [algo_req EXCEPT !["cf"] =
                                AlgoRequest(RetryObstacles, current_location["x"],
                                            current_location["y"],
                                            current_location["d"], TRUE)]
                         /\ Goto("cf", "algo_post")
                    ELSE /\ Goto("cf", "dead")
                         /\ UNCHANGED algo_req
                 /\ UNCHANGED <<action_queue, start_movement>>
            ELSE /\ start_movement' = FALSE
                 /\ Goto("cf", "release")
                 /\ UNCHANGED <<action_queue, failed_attempt, algo_req>>
       ELSE /\ Goto("cf", "dead")
            /\ UNCHANGED <<action_queue, start_movement, failed_attempt,
                           algo_req>>
    /\ UNCHANGED <<link, stm_message, task2, command, snap_arg, snap_resp,
                   algo_resp, algo_i, command_queue, path_queue,
                   android_queue, android_dropped, locks, obstacles,
                   success_obstacles, failed_obstacles, current_location,
                   environment, history>>

\* 275: self.movement_lock.acquire(blocking=True)
command_follower_acquire ==
    /\ pc["cf"] = "acquire"
    /\ ~movement_lock
    /\ movement_lock' = TRUE
    /\ Goto("cf", "send")
    /\ UNCHANGED <<link, stm_message, task2, locals, queues, events, lock_stm,
                   session, environment, history>>

\* 276: self.stm_link.send(command)
command_follower_send ==
    /\ pc["cf"] = "send"
    /\ sent' = Append(sent, command)
    /\ stm_unacked' = stm_unacked + 1
    /\ Goto("cf", "get")
    /\ UNCHANGED <<link, stm_message, task2, locals, queues, events, locks,
                   session, n_inbound, plan_requests, plans, vision_results>>

(***************************************************************************)
(* src/Task1.py, rpi_action (204-219) and snap_and_rec (329-368).          *)
(***************************************************************************)

\* 207: self.start_movement.wait()
rpi_action_wait ==
    /\ pc["ra"] = "top"
    /\ start_movement
    /\ Goto("ra", "get")
    /\ UNCHANGED <<link, stm_message, task2, locals, queues, events, locks,
                   session, environment, history>>

\* a registry that keeps the first obstacle submitted with an id
RECURSIVE MergeObstaclesKeepFirst(_, _)
MergeObstaclesKeepFirst(registry, list) ==
    IF list = <<>>
    THEN registry
    ELSE MergeObstaclesKeepFirst(
             IF Head(list).id \in DOMAIN registry
             THEN registry
             ELSE DictSet(registry, Head(list).id, Head(list)),
             Tail(list))

\* 213-214: for obs in action.value["obstacles"]: self.obstacles[obs["id"]] = obs
RECURSIVE MergeObstacles(_, _)
MergeObstacles(registry, list) ==
    IF list = <<>>
    THEN registry
    ELSE MergeObstacles(DictSet(registry, Head(list).id, Head(list)), Tail(list))

\* 208-219: action = self.action_queue.get() and the branch on action.cat.
\* An obstacles action is merged into the registry and request_algo is
\* called with the action's value and the default pose and retrying (215,
\* 370); a snap action enters snap_and_rec; a stitch action calls
\* request_stitch, which changes no state.
rpi_action_get ==
    /\ pc["ra"] = "get"
    /\ action_queue # <<>>
    /\ action_queue' = Tail(action_queue)
    /\ LET action == Head(action_queue) IN
       IF action.cat = "obstacles"
       THEN /\ obstacles' = MergeObstacles(obstacles, action.value.obstacles)
            /\ algo_req' = [algo_req EXCEPT !["ra"] =
                               AlgoRequest(action.value.obstacles, 1, 1, 0, FALSE)]
            /\ Goto("ra", "algo_post")
            /\ UNCHANGED snap_arg
       ELSE IF action.cat = "snap"
       THEN /\ snap_arg' = action.value
            /\ Goto("ra", "capture")
            /\ UNCHANGED <<obstacles, algo_req>>
       ELSE /\ Goto("ra", "top")
            /\ UNCHANGED <<obstacles, algo_req, snap_arg>>
    /\ UNCHANGED <<link, stm_message, task2, command, snap_resp, algo_resp,
                   algo_i, command_queue, path_queue, android_queue, events,
                   locks, success_obstacles, failed_obstacles,
                   current_location, failed_attempt, environment, history>>

\* 335-338: obstacle_id, signal = obstacle_id_with_signal.split("_") (a
\* ValueError unless there are two parts) and self.capture_image(filename)
snap_and_rec_capture ==
    /\ pc["ra"] = "capture"
    /\ Goto("ra", IF Len(Split(snap_arg)) = 2 THEN "post" ELSE "dead")
    /\ UNCHANGED <<link, stm_message, task2, locals, queues, events, locks,
                   session, environment, history>>

\* 340-349: the POST to the vision service; on a status other than 200
\* snap_and_rec returns
snap_and_rec_post ==
    /\ pc["ra"] = "post"
    /\ \E response \in VisionResponses :
          /\ snap_resp' = response
          /\ IF response.status_code # 200
             THEN /\ Goto("ra", "top")
                  /\ UNCHANGED vision_results
             ELSE /\ Goto("ra", "release")
                  /\ vision_results' = Append(vision_results,
                         [obstacle_id |-> Split(snap_arg)[1],
                          image_id |-> response.image_id])
    /\ UNCHANGED <<link, stm_message, task2, command, snap_arg, algo_req,
                   algo_resp, algo_i, queues, events, locks, session,
                   environment, sent, plan_requests, plans>>

\* 361-368: the image-rec message, after the release of 352
snap_and_rec_put ==
    /\ pc["ra"] = "snap_put"
    /\ android_queue' = QueuePut(android_queue,
           AndroidMessage("image-rec",
                          [image_id |-> snap_resp.image_id,
                           obstacle_id |-> Split(snap_arg)[1]]))
    /\ Goto("ra", "top")
    /\ UNCHANGED <<link, stm_message, task2, locals, command_queue, path_queue,
                   action_queue, events, locks, session, environment, history>>

(***************************************************************************)
(* src/Task1.py, recv_stm (226-260).  The motion controller acknowledges   *)
(* a command it received with the message ACK, and may send other text.    *)
(***************************************************************************)

\* recv_stm taking every message for an acknowledgment
recv_stm_recv_any(messages) ==
    /\ pc["rs"] = "recv"
    /\ \E m \in messages :
          /\ stm_message' = m
          /\ stm_unacked' = IF m = ACK THEN stm_unacked - 1 ELSE stm_unacked
          /\ m = ACK => stm_unacked > 0
          /\ Goto("rs", "release")
    /\ UNCHANGED <<link, task2, locals, queues, events, locks, session,
                   n_inbound, history>>

\* 231-237, 259-260: message = self.stm_link.recv(); anything but "ACK" is
\* logged and ignored
recv_stm_recv(messages) ==
    /\ pc["rs"] = "recv"
    /\ \E m \in messages :
          /\ stm_message' = m
          /\ IF m = ACK
             THEN /\ stm_unacked > 0
                  /\ stm_unacked' = stm_unacked - 1
                  /\ Goto("rs", "release")
             ELSE UNCHANGED <<pc, stm_unacked>>
    /\ UNCHANGED <<link, task2, locals, queues, events, locks, session,
                   n_inbound, history>>

\* recv_stm going on to the next message when there is no checkpoint
recv_stm_pop_lenient ==
    /\ pc["rs"] = "pop"
    /\ IF path_queue = <<>>
       THEN /\ Goto("rs", "recv")
            /\ UNCHANGED <<path_queue, current_location, android_queue>>
       ELSE LET cur_location == Head(path_queue) IN
            /\ path_queue' = Tail(path_queue)
            /\ current_location' =
                   DictSet(DictSet(DictSet(current_location, "x", cur_location["x"]),
                                   "y", cur_location["y"]),
                           "d", cur_location["d"])
            /\ android_queue' = QueuePut(android_queue,
                   AndroidMessage("location", Pose(cur_location["x"],
                                                   cur_location["y"],
                                                   cur_location["d"])))
            /\ Goto("rs", "recv")
    /\ UNCHANGED <<link, stm_message, task2, locals, command_queue,
                   action_queue, events, locks, obstacles, success_obstacles,
                   failed_obstacles, failed_attempt, environment, history>>

\* 241-258: cur_location = self.path_queue.get_nowait() (queue.Empty ends the
\* worker), the three writes of current_location and the location message
recv_stm_pop ==
    /\ pc["rs"] = "pop"
    /\ IF path_queue = <<>>
       THEN /\ Goto("rs", "dead")
            /\ UNCHANGED <<path_queue, current_location, android_queue>>
       ELSE LET cur_location == Head(path_queue) IN
            /\ path_queue' = Tail(path_queue)
            /\ current_location' =
                   DictSet(DictSet(DictSet(current_location, "x", cur_location["x"]),
                                   "y", cur_location["y"]),
                           "d", cur_location["d"])
            /\ android_queue' = QueuePut(android_queue,
                   AndroidMessage("location", Pose(cur_location["x"],
                                                   cur_location["y"],
                                                   cur_location["d"])))
            /\ Goto("rs", "recv")
    /\ UNCHANGED <<link, stm_message, task2, locals, command_queue,
                   action_queue, events, locks, obstacles, success_obstacles,
                   failed_obstacles, failed_attempt, environment, history>>

(***************************************************************************)
(* src/Task1.py, recv_android (167-202) and android_sender (151-165).      *)
(***************************************************************************)

\* One pass of the loop of recv_android.  OSError sets android_dropped and
\* the loop continues (175-180); text that is no JSON ends the worker
\* (184-185); message["cat"] on a JSON string raises TypeError (189); an
\* obstacles message becomes an action (190).  The START branch (194-202)
\* compares the parsed message with the string "START", which no JSON object
\* equals.
recv_android(messages) ==
    /\ pc["recv"] = "recv"
    /\ n_inbound < MaxInbound
    /\ n_inbound' = n_inbound + 1
    /\ \E message \in messages :
          /\ inbound' = message
          /\ CASE message.kind = "oserror" ->
                     /\ SetDropped
                     /\ UNCHANGED <<pc, action_queue>>
               [] message.kind = "invalid" ->
                     /\ Goto("recv", "done")
                     /\ UNCHANGED <<android_dropped, drops, action_queue>>
               [] message.kind = "str" ->
                     /\ Goto("recv", "dead")
                     /\ UNCHANGED <<android_dropped, drops, action_queue>>
               [] OTHER ->
                     /\ action_queue' =
                           IF message.cat = "obstacles"
                           THEN QueuePut(action_queue, PiAction(message.cat, message.value))
                           ELSE action_queue
                     /\ UNCHANGED <<pc, android_dropped, drops>>
    /\ UNCHANGED <<main, n_cycles, n_reconnected, stm_message, task2, locals,
                   command_queue, path_queue, android_queue, start_movement,
                   locks, session, stm_unacked, history>>

\* 158-165: message = self.android_queue.get(timeout=0.5) and
\* self.android_link.send(message), whose OSError sets android_dropped
android_sender ==
    /\ pc["sender"] = "get"
    /\ android_queue # <<>>
    /\ android_queue' = Tail(android_queue)
    /\ \E ok \in BOOLEAN :
          IF ok THEN UNCHANGED <<android_dropped, drops>> ELSE SetDropped
    /\ UNCHANGED <<inbound, main, n_cycles, n_reconnected, stm_message, task2,
                   pc, locals, command_queue, path_queue, action_queue,
                   start_movement, locks, session, environment, history>>

(***************************************************************************)
(* src/Task1.py: the workers, with motion armed.                           *)
(*                                                                         *)
(* From Init no worker of Task1.py gets past start_movement.wait(): the    *)
(* only start_movement.set() (198) sits behind message == "START", and     *)
(* rpi_action does not read the action queue before the event is set       *)
(* (207).  The properties of the workers' protocol are therefore checked   *)
(* from the state in which the event has been set and everything else is   *)
(* as start() left it.                                                     *)
(***************************************************************************)
InitArmed ==
    /\ Constructed
    /\ start_movement = TRUE
    /\ pc = Task1Start
    /\ main = "done"

\* The steps of Task1.py when the motion controller sends the messages
\* stm, the remote control the messages android and the planning service
\* answers with one of responses.
Task1Next(stm, android, responses) ==
    \/ command_follower_get
    \/ command_follower_dispatch
    \/ command_follower_acquire
    \/ command_follower_send
    \/ rpi_action_wait
    \/ rpi_action_get
    \/ snap_and_rec_capture
    \/ snap_and_rec_post
    \/ snap_and_rec_put
    \/ recv_stm_recv(stm)
    \/ recv_stm_pop
    \/ recv_android(android)
    \/ \E w \in {"cf", "ra", "rs"} : release(w)
    \/ \E w \in AlgoCallers :
          \/ request_algo_post_from(w, responses)
          \/ clear_queues_cmd_empty(w)
          \/ clear_queues_cmd_get(w)
          \/ clear_queues_path_empty(w)
          \/ clear_queues_path_get(w)
          \/ request_algo_put_cmd(w)
          \/ request_algo_put_path(w)

Next == Task1Next({ACK}, {ObstaclesMessage(ObstacleValue1)}, PlanResponses)

\* Task1.py, its workers started with motion armed
Spec == InitArmed /\ [][Next]_vars

(***************************************************************************)
(* src/Task1_upgrade.py.  request_algo (328-373), clear_queues (390-397,   *)
(* which also empties the unused cached_command_queue) and the first lines *)
(* of snap_and_rec (291-294) are those of Task1.py; the actions above      *)
(* model them.  The workers below differ: lock_stm replaces movement_lock. *)
(***************************************************************************)

\* 255: if self.lock_stm.get_value() == 1.  While the value is not 1 the
\* loop spins without changing any state.
up_command_follower_check ==
    /\ pc["cf"] = "check"
    /\ lock_stm = 1
    /\ Goto("cf", "acquire")
    /\ UNCHANGED <<link, stm_message, task2, locals, queues, events, locks,
                   session, environment, history>>

\* command_follower going on to the dequeue without taking lock_stm, as it
\* would if line 256 were missing
up_command_follower_no_acquire ==
    /\ pc["cf"] = "acquire"
    /\ Goto("cf", "get")
    /\ UNCHANGED <<link, stm_message, task2, locals, queues, events, locks,
                   session, environment, history>>

\* 256: self.lock_stm.acquire(), which blocks while the value is 0
up_command_follower_acquire ==
    /\ pc["cf"] = "acquire"
    /\ lock_stm > 0
    /\ lock_stm' = lock_stm - 1
    /\ Goto("cf", "get")
    /\ UNCHANGED <<link, stm_message, task2, locals, queues, events,
                   movement_lock, session, environment, history>>

\* 257: command = self.command_queue.get(), with lock_stm held
up_command_follower_get ==
    /\ pc["cf"] = "get"
    /\ command_queue # <<>>
    /\ command' = Head(command_queue)
    /\ command_queue' = Tail(command_queue)
    /\ Goto("cf", "dispatch")
    /\ UNCHANGED <<link, stm_message, task2, snap_arg, snap_resp, algo_req,
                   algo_resp, algo_i, path_queue, action_queue,
                   android_queue, events, locks, session, environment,
                   history>>

\* 262-278: the if/elif chain on the command, in the order of the code: a
\* motion command is sent, a snapshot command becomes a "snap" action, the
\* end-of-path branch queues a "stitch" action, any other command is dropped
\* (there is no else).  The loop then starts over.
up_command_follower_dispatch ==
    /\ pc["cf"] = "dispatch"
    /\ IF StartsWithAny(command, stm32_prefixes)
       THEN /\ sent' = Append(sent, command)
            /\ stm_unacked' = stm_unacked + 1
            /\ UNCHANGED action_queue
       ELSE IF StartsWith(command, SNAP)
       THEN /\ action_queue' = QueuePut(action_queue,
                                        PiAction("snap", ReplaceSNAP(command)))
            /\ UNCHANGED <<sent, stm_unacked>>
       ELSE IF command = SSSSS
       THEN /\ action_queue' = QueuePut(action_queue, PiAction("stitch", <<>>))
            /\ UNCHANGED <<sent, stm_unacked>>
       ELSE UNCHANGED <<action_queue, sent, stm_unacked>>
    /\ Goto("cf", "check")
    /\ UNCHANGED <<link, stm_message, task2, locals, command_queue, path_queue,
                   android_queue, events, locks, session, n_inbound,
                   plan_requests, plans, vision_results>>

\* 213-225: action = self.action_queue.get() and the branch on action.cat;
\* there is no start_movement.wait() in this draft
up_rpi_action_get ==
    /\ pc["ra"] = "top"
    /\ action_queue # <<>>
    /\ action_queue' = Tail(action_queue)
    /\ LET action == Head(action_queue) IN
       IF action.cat = "obstacles"
       THEN /\ obstacles' = MergeObstacles(obstacles, action.value.obstacles)
            /\ algo_req' = [algo_req EXCEPT !["ra"] =
                               AlgoRequest(action.value.obstacles, 1, 1, 0, FALSE)]
            /\ Goto("ra", "algo_post")
            /\ UNCHANGED snap_arg
       ELSE IF action.cat = "snap"
       THEN /\ snap_arg' = action.value
            /\ Goto("ra", "capture")
            /\ UNCHANGED <<obstacles, algo_req>>
       ELSE /\ UNCHANGED <<pc, obstacles, algo_req, snap_arg>>
    /\ UNCHANGED <<link, stm_message, task2, command, snap_resp, algo_resp,
                   algo_i, command_queue, path_queue, android_queue, events,
                   locks, success_obstacles, failed_obstacles,
                   current_location, failed_attempt, environment, history>>

\* 296-306: the POST to the vision service
up_snap_and_rec_post ==
    /\ pc["ra"] = "post"
    /\ \E response \in VisionResponses :
          /\ snap_resp' = response
          /\ vision_results' =
                IF response.status_code # 200
                THEN vision_results
                ELSE Append(vision_results,
                            [obstacle_id |-> Split(snap_arg)[1],
                             image_id |-> response.image_id])
    /\ Goto("ra", "release")
    /\ UNCHANGED <<link, stm_message, task2, command, snap_arg, algo_req,
                   algo_resp, algo_i, queues, events, locks, session,
                   environment, sent, plan_requests, plans>>

\* 303-304 and 310: self.lock_stm.release(), after which snap_and_rec
\* returns if the status was not 200
up_snap_and_rec_release ==
    /\ pc["ra"] = "release"
    /\ lock_stm' = lock_stm + 1
    /\ Goto("ra", IF snap_resp.status_code # 200 THEN "top" ELSE "snap_put")
    /\ UNCHANGED <<link, stm_message, task2, locals, queues, events,
                   movement_lock, session, environment, history>>

\* 237-247: message = self.stm_link.recv(); a message that does not start
\* with ACK is logged and ignored
up_recv_stm_recv(messages) ==
    /\ pc["rs"] = "recv"
    /\ \E m \in messages :
          /\ stm_message' = m
          /\ IF StartsWith(m, ACK)
             THEN /\ stm_unacked > 0
                  /\ stm_unacked' = stm_unacked - 1
                  /\ Goto("rs", "release")
             ELSE UNCHANGED <<pc, stm_unacked>>
    /\ UNCHANGED <<link, task2, locals, queues, events, locks, session,
                   n_inbound, history>>

\* 244: self.lock_stm.release()
up_recv_stm_release ==
    /\ pc["rs"] = "release"
    /\ lock_stm' = lock_stm + 1
    /\ Goto("rs", "recv")
    /\ UNCHANGED <<link, stm_message, task2, locals, queues, events,
                   movement_lock, session, environment, history>>

\* One pass of the loop of recv_android (173-208).  As in Task1.py but for
\* the START branch: a control message whose value is START in any case sets
\* start_movement and reports it if the command queue is not empty, and
\* reports an error otherwise.
up_recv_android(messages) ==
    /\ pc["recv"] = "recv"
    /\ n_inbound < MaxInbound
    /\ n_inbound' = n_inbound + 1
    /\ \E message \in messages :
          /\ inbound' = message
          /\ CASE message.kind = "oserror" ->
                     /\ SetDropped
                     /\ UNCHANGED <<pc, action_queue, start_movement,
                                    android_queue>>
               [] message.kind = "invalid" ->
                     /\ Goto("recv", "done")
                     /\ UNCHANGED <<android_dropped, drops, action_queue,
                                    start_movement, android_queue>>
               [] message.kind = "str" ->
                     /\ Goto("recv", "dead")
                     /\ UNCHANGED <<android_dropped, drops, action_queue,
                                    start_movement, android_queue>>
               [] OTHER ->
                     /\ action_queue' =
                           IF message.cat = "obstacles"
                           THEN QueuePut(action_queue, PiAction(message.cat, message.value))
                           ELSE action_queue
                     /\ IF message.cat = "control" /\ Upper(message.text) = "START"
                        THEN IF command_queue # <<>>
                             THEN /\ start_movement' = TRUE
                                  /\ android_queue' = QueuePut(android_queue,
                                         AndroidMessage("info", "Starting robot!"))
                             ELSE /\ android_queue' = QueuePut(android_queue,
                                         AndroidMessage("error", "Empty obstacles"))
                                  /\ UNCHANGED start_movement
                        ELSE UNCHANGED <<start_movement, android_queue>>
                     /\ UNCHANGED <<pc, android_dropped, drops>>
    /\ UNCHANGED <<main, n_cycles, n_reconnected, stm_message, task2, locals,
                   command_queue, path_queue, locks, session, stm_unacked,
                   history>>

(***************************************************************************)
(* src/Task1_upgrade.py, reconnect_android (115-151), which start() calls  *)
(* in the main process (110).  Task1.py has the same function (115-149)    *)
(* but its call is commented out (110), so there it never runs.            *)
(***************************************************************************)

\* 120: self.android_dropped.wait()
reconnect_android_wait ==
    /\ main = "wait"
    /\ android_dropped
    /\ main' = "kill"
    /\ n_cycles' = n_cycles + 1
    /\ late_drop' = FALSE
    /\ UNCHANGED <<pc, locals, queues, events, locks, session, environment,
                   history, stm_message, task2, inbound, n_sets, n_signals,
                   n_reconnected>>

\* 127-136: kill() and join() of android_sender and of recv_android
reconnect_android_kill ==
    /\ main = "kill"
    /\ main' = "restart"
    /\ pc' = [pc EXCEPT !["sender"] = "killed", !["recv"] = "killed"]
    /\ UNCHANGED <<locals, queues, events, locks, session, environment,
                   history, stm_message, task2, inbound, drops, n_cycles,
                   n_reconnected>>

\* 139-148: disconnect(), connect(), and the two workers are created and
\* started again; start tells where each worker begins
reconnect_android_restart(start) ==
    /\ main = "restart"
    /\ main' = "put"
    /\ pc' = [pc EXCEPT !["sender"] = start["sender"], !["recv"] = start["recv"]]
    /\ UNCHANGED <<locals, queues, events, locks, session, environment,
                   history, stm_message, task2, inbound, drops, n_cycles,
                   n_reconnected>>

\* 150: self.android_queue.put(AndroidMessage("info", "You are reconnected!"))
reconnect_android_put ==
    /\ main = "put"
    /\ main' = "clear"
    /\ android_queue' = QueuePut(android_queue,
                                 AndroidMessage("info", "You are reconnected!"))
    /\ n_reconnected' = n_reconnected + 1
    /\ UNCHANGED <<pc, locals, command_queue, path_queue, action_queue, events,
                   locks, session, environment, history, stm_message, task2,
                   inbound, drops, n_cycles>>

\* the cycle going round without clearing the event
reconnect_android_no_clear ==
    /\ main = "clear"
    /\ main' = "wait"
    /\ UNCHANGED <<pc, locals, queues, events, locks, session, environment,
                   history, stm_message, task2, inbound, drops, n_cycles,
                   n_reconnected>>

\* 151: self.android_dropped.clear()
reconnect_android_clear ==
    /\ main = "clear"
    /\ main' = "wait"
    /\ android_dropped' = FALSE
    /\ UNCHANGED <<pc, locals, queues, start_movement, locks, session,
                   environment, history, stm_message, task2, inbound, drops,
                   n_cycles, n_reconnected>>

\* the workers of Task1_upgrade.py at the top of their loops
UpgradeStart ==
    [w \in Workers |->
        CASE w = "cf" -> "check"
          [] w = "ra" -> "top"
          [] w = "rs" -> "recv"
          [] w = "recv" -> "recv"
          [] w = "sender" -> "get"]

InitUp ==
    /\ Constructed
    /\ start_movement = FALSE
    /\ pc = UpgradeStart
    /\ main = "wait"

\* the steps of Task1_upgrade.py, with the same parameters
UpgradeNext(stm, android, responses) ==
    \/ up_command_follower_check
    \/ up_command_follower_acquire
    \/ up_command_follower_get
    \/ up_command_follower_dispatch
    \/ up_rpi_action_get
    \/ snap_and_rec_capture
    \/ up_snap_and_rec_post
    \/ up_snap_and_rec_release
    \/ snap_and_rec_put
    \/ up_recv_stm_recv(stm)
    \/ up_recv_stm_release
    \/ up_recv_android(android)
    \/ \E w \in {"ra"} :
          \/ request_algo_post_from(w, responses)
          \/ clear_queues_cmd_empty(w)
          \/ clear_queues_cmd_get(w)
          \/ clear_queues_path_empty(w)
          \/ clear_queues_path_get(w)
          \/ request_algo_put_cmd(w)
          \/ request_algo_put_path(w)

NextUp ==
    UpgradeNext({ACK},
                {ObstaclesMessage(ObstacleValue1), ControlMessage("START")},
                PlanResponses)

\* Task1_upgrade.py from construction
SpecUp == InitUp /\ [][NextUp]_vars

\* Task1_upgrade.py and Task1.py with a planning service that answers with
\* the plan of UnknownPlanResponses
NextUpUnknown ==
    UpgradeNext({ACK},
                {ObstaclesMessage(ObstacleValue1), ControlMessage("START")},
                UnknownPlanResponses)

SpecUpUnknown == InitUp /\ [][NextUpUnknown]_vars

NextUnknown ==
    Task1Next({ACK}, {ObstaclesMessage(ObstacleValue1)}, UnknownPlanResponses)

SpecUnknown == InitArmed /\ [][NextUnknown]_vars

\* Task1.py with a motion controller that also sends messages other than
\* the acknowledgment
NextChatter ==
    Task1Next({ACK, CHATTER}, {ObstaclesMessage(ObstacleValue1)}, PlanResponses)

SpecChatter == InitArmed /\ [][NextChatter]_vars

\* Task1.py and Task1_upgrade.py with a remote control that sends two
\* obstacle lists, which both have an obstacle with the id 1
NextObstacles ==
    Task1Next({ACK},
              {ObstaclesMessage(ObstacleValue1), ObstaclesMessage(ObstacleValue2)},
              ShortPlanResponses)

SpecObstacles == InitArmed /\ [][NextObstacles]_vars

NextUpObstacles ==
    UpgradeNext({ACK},
                {ObstaclesMessage(ObstacleValue1),
                 ObstaclesMessage(ObstacleValue2), ControlMessage("START")},
                ShortPlanResponses)

SpecUpObstacles == InitUp /\ [][NextUpObstacles]_vars

\* 237-244 of Task1_upgrade.py when the motion controller sends an
\* acknowledgment that answers no command (a duplicate, or one sent
\* unasked): recv_stm tests only message.startswith("ACK") and goes on to
\* the release
up_recv_stm_recv_unsolicited ==
    /\ pc["rs"] = "recv"
    /\ lock_stm < MaxValue
    /\ stm_message' = ACK
    /\ Goto("rs", "release")
    /\ UNCHANGED <<link, task2, locals, queues, events, locks, session,
                   environment, history>>

\* Task1_upgrade.py with a motion controller that may acknowledge more than
\* it was sent
NextUpAcks ==
    \/ NextUp
    \/ up_recv_stm_recv_unsolicited

\* a remote control that also sends text that is no JSON
MalformedMessages ==
    { Inbound("invalid", "", [obstacles |-> <<>>], ""),
      ObstaclesMessage(ObstacleValue1), ControlMessage("START") }

NextUpMalformed == UpgradeNext({ACK}, MalformedMessages, ShortPlanResponses)

SpecUpMalformed == InitUp /\ [][NextUpMalformed]_vars

\* a control link whose reads may fail
LinkMessages ==
    { Inbound("oserror", "", [obstacles |-> <<>>], ""),
      ObstaclesMessage(ObstacleValue1), ControlMessage("START") }

\* the steps of the main process of Task1_upgrade.py
UpgradeReconnect ==
    \/ reconnect_android_wait
    \/ reconnect_android_kill
    \/ reconnect_android_restart(UpgradeStart)
    \/ reconnect_android_put
    \/ reconnect_android_clear

\* Task1_upgrade.py with its main process and android_sender, on a control
\* link that may fail.  The processes are scheduled fairly; nothing is
\* assumed of what the remote control and the motion controller send.
NextUpLink ==
    \/ UpgradeNext({ACK}, LinkMessages, ShortPlanResponses)
    \/ android_sender
    \/ UpgradeReconnect

\* the steps of the three workers of Task1_upgrade.py that outlive a
\* reconnection, for the fairness conditions
UpgradeWorker(w, responses) ==
    CASE w = "cf" -> \/ up_command_follower_check
                     \/ up_command_follower_acquire
                     \/ up_command_follower_get
                     \/ up_command_follower_dispatch
      [] w = "ra" -> \/ up_rpi_action_get
                     \/ snap_and_rec_capture
                     \/ up_snap_and_rec_post
                     \/ up_snap_and_rec_release
                     \/ snap_and_rec_put
                     \/ request_algo_post_from(w, responses)
                     \/ clear_queues_cmd_empty(w)
                     \/ clear_queues_cmd_get(w)
                     \/ clear_queues_path_empty(w)
                     \/ clear_queues_path_get(w)
                     \/ request_algo_put_cmd(w)
                     \/ request_algo_put_path(w)
      [] w = "rs" -> up_recv_stm_release

SpecUpLink ==
    /\ InitUp
    /\ [][NextUpLink]_vars
    /\ WF_vars(UpgradeReconnect)
    /\ WF_vars(android_sender)
    /\ \A w \in {"cf", "ra", "rs"} :
          WF_vars(UpgradeWorker(w, ShortPlanResponses))

\* Task1.py from construction (Init) and from the armed state of Spec, with
\* android_sender, on a control link that may fail.  The workers are
\* scheduled fairly and the motion controller acknowledges.
InitBoot == Init \/ InitArmed

NextBoot ==
    \/ Task1Next({ACK}, LinkMessages, ShortPlanResponses)
    \/ android_sender

\* the steps of command_follower, rpi_action and recv_stm of Task1.py, for
\* the fairness conditions; recv_stm's read is fair because the motion
\* controller acknowledges what it was sent
Task1Worker(w, responses) ==
    CASE w = "cf" -> \/ command_follower_get
                     \/ command_follower_dispatch
                     \/ command_follower_acquire
                     \/ command_follower_send
                     \/ release(w)
                     \/ request_algo_post_from(w, responses)
                     \/ clear_queues_cmd_empty(w)
                     \/ clear_queues_cmd_get(w)
                     \/ clear_queues_path_empty(w)
                     \/ clear_queues_path_get(w)
                     \/ request_algo_put_cmd(w)
                     \/ request_algo_put_path(w)
      [] w = "ra" -> \/ rpi_action_wait
                     \/ rpi_action_get
                     \/ snap_and_rec_capture
                     \/ snap_and_rec_post
                     \/ snap_and_rec_put
                     \/ release(w)
                     \/ request_algo_post_from(w, responses)
                     \/ clear_queues_cmd_empty(w)
                     \/ clear_queues_cmd_get(w)
                     \/ clear_queues_path_empty(w)
                     \/ clear_queues_path_get(w)
                     \/ request_algo_put_cmd(w)
                     \/ request_algo_put_path(w)
      [] w = "rs" -> \/ recv_stm_recv({ACK})
                     \/ release(w)
                     \/ recv_stm_pop

SpecBoot ==
    /\ InitBoot
    /\ [][NextBoot]_vars
    /\ WF_vars(android_sender)
    /\ \A w \in {"cf", "ra", "rs"} :
          WF_vars(Task1Worker(w, ShortPlanResponses))

(***************************************************************************)
(* src/Task2_backup.py.  There is no rpi_action worker and no planning     *)
(* service: recv_android itself runs the START sequence, putting the       *)
(* commands on command_queue and taking the two snapshots.  lock_stm is    *)
(* acquired in __init__ (56-57), so its value is 0 when the workers start. *)
(* The labels of this program carry the prefix t2_.                        *)
(***************************************************************************)
FW150 == <<"F", "W", "1", "5", "0">>
FR000 == <<"F", "R", "0", "0", "0">>
FW030 == <<"F", "W", "0", "3", "0">>
FW050 == <<"F", "W", "0", "5", "0">>
FW040 == <<"F", "W", "0", "4", "0">>
FW120 == <<"F", "W", "1", "2", "0">>
FW240 == <<"F", "W", "2", "4", "0">>
FW060 == <<"F", "W", "0", "6", "0">>

\* whether int(s) succeeds on the string s
IsDigits(s) ==
    /\ s # <<>>
    /\ \A i \in 1..Len(s) :
          s[i] \in {"0", "1", "2", "3", "4", "5", "6", "7", "8", "9"}

\* int(s) for a string of decimal digits
DigitValue(c) ==
    CASE c = "0" -> 0 [] c = "1" -> 1 [] c = "2" -> 2 [] c = "3" -> 3
      [] c = "4" -> 4 [] c = "5" -> 5 [] c = "6" -> 6 [] c = "7" -> 7
      [] c = "8" -> 8 [] c = "9" -> 9

RECURSIVE ParseInt(_)
ParseInt(s) ==
    IF s = <<>> THEN 0
    ELSE 10 * ParseInt(SubSeq(s, 1, Len(s) - 1)) + DigitValue(s[Len(s)])

\* 190-204: the commands put after the first snapshot
Batch1(image) ==
    (IF ParseInt(image) = 39
     THEN <<FL000, FR000, FW030, FR000, FL000>>
     ELSE <<FR000, FL000, FW030, FL000, FR000>>) \o <<FW150>>

\* 210-248: the commands put after the second snapshot
Batch2(image) ==
    (IF ParseInt(image) = 39
     THEN <<FL000, FW050, FR000, FW040, FR000, FW120, FR000>>
     ELSE <<FR000, FW050, FL000, FW040, FR000, FW120, FR000>>)
    \o <<FW240>>
    \o (IF ParseInt(image) = 38
        THEN <<FL000, FW030, FR000>>
        ELSE <<FR000, FW030, FL000>>)
    \o <<FW060, SSSSS>>

\* 291-295: if self.lock_stm.get_value() != 1: continue
t2_command_follower_check ==
    /\ pc["cf"] = "t2_check"
    /\ lock_stm = 1
    /\ Goto("cf", "t2_acquire")
    /\ UNCHANGED <<link, stm_message, task2, locals, queues, events, locks,
                   session, environment, history>>

\* 295: self.lock_stm.acquire()
t2_command_follower_acquire ==
    /\ pc["cf"] = "t2_acquire"
    /\ lock_stm > 0
    /\ lock_stm' = lock_stm - 1
    /\ Goto("cf", "t2_get")
    /\ UNCHANGED <<link, stm_message, task2, locals, queues, events,
                   movement_lock, session, environment, history>>

\* 297: command = self.command_queue.get()
t2_command_follower_get ==
    /\ pc["cf"] = "t2_get"
    /\ command_queue # <<>>
    /\ command' = Head(command_queue)
    /\ command_queue' = Tail(command_queue)
    /\ Goto("cf", "t2_dispatch")
    /\ UNCHANGED <<link, stm_message, task2, snap_arg, snap_resp, algo_req,
                   algo_resp, algo_i, path_queue, action_queue, android_queue,
                   events, locks, session, environment, history>>

\* 300-311: the if/elif chain: a command with a motion prefix is sent, the
\* end-of-path branch releases lock_stm, any other command raises
t2_command_follower_dispatch ==
    /\ pc["cf"] = "t2_dispatch"
    /\ IF StartsWithAny(command, stm32_prefixes)
       THEN /\ sent' = Append(sent, command)
            /\ stm_unacked' = stm_unacked + 1
            /\ Goto("cf", "t2_check")
            /\ UNCHANGED lock_stm
       ELSE IF command = SSSSS
       THEN /\ lock_stm' = lock_stm + 1
            /\ Goto("cf", "t2_check")
            /\ UNCHANGED <<sent, stm_unacked>>
       ELSE /\ Goto("cf", "dead")
            /\ UNCHANGED <<sent, stm_unacked, lock_stm>>
    /\ UNCHANGED <<link, stm_message, task2, locals, queues, events,
                   movement_lock, session, n_inbound, plan_requests, plans,
                   vision_results>>

\* 263-270: message = self.stm_link.recv(); only a message that starts with
\* ACK is handled
t2_recv_stm_recv(messages) ==
    /\ pc["rs"] = "t2_recv"
    /\ \E m \in messages :
          /\ stm_message' = m
          /\ IF StartsWith(m, ACK)
             THEN /\ stm_unacked > 0
                  /\ stm_unacked' = stm_unacked - 1
                  /\ Goto("rs", "t2_release")
             ELSE UNCHANGED <<pc, stm_unacked>>
    /\ UNCHANGED <<link, task2, locals, queues, events, locks, session,
                   n_inbound, history>>

\* 271: self.lock_stm.release()
t2_recv_stm_release ==
    /\ pc["rs"] = "t2_release"
    /\ lock_stm' = lock_stm + 1
    /\ Goto("rs", "t2_task_done")
    /\ UNCHANGED <<link, stm_message, task2, locals, queues, events,
                   movement_lock, session, environment, history>>

\* 272-284: self.command_queue.task_done(), which raises ValueError when
\* called more often than there were puts; then a five-character message
\* whose tail is a number adds a distance to dists
t2_recv_stm_task_done ==
    /\ pc["rs"] = "t2_task_done"
    /\ IF unfinished_tasks = 0
       THEN /\ Goto("rs", "dead")
            /\ UNCHANGED <<unfinished_tasks, dists>>
       ELSE /\ unfinished_tasks' = unfinished_tasks - 1
            /\ dists' = IF Len(stm_message) = 5
                           /\ IsDigits(SubSeq(stm_message, 4, 5))
                        THEN Append(dists, ParseInt(SubSeq(stm_message, 4, 5)))
                        ELSE dists
            /\ Goto("rs", "t2_recv")
    /\ UNCHANGED <<link, stm_message, image_1, image_2, t2_batch, t2_stage,
                   locals, queues, events, locks, session, environment,
                   history>>

\* 155-179: one pass of the loop of recv_android up to the START test; a
\* START control message is answered with the info message
t2_recv_android(messages) ==
    /\ pc["recv"] = "t2_recv"
    /\ n_inbound < MaxInbound
    /\ n_inbound' = n_inbound + 1
    /\ \E message \in messages :
          /\ inbound' = message
          /\ CASE message.kind = "oserror" ->
                     /\ SetDropped
                     /\ UNCHANGED <<pc, android_queue>>
               [] message.kind = "invalid" ->
                     /\ Goto("recv", "done")
                     /\ UNCHANGED <<android_dropped, drops, android_queue>>
               [] message.kind = "str" ->
                     /\ Goto("recv", "dead")
                     /\ UNCHANGED <<android_dropped, drops, android_queue>>
               [] OTHER ->
                     /\ IF message.cat = "control" /\ Upper(message.text) = "START"
                        THEN /\ android_queue' = QueuePut(android_queue,
                                    AndroidMessage("info", "Starting robot!"))
                             /\ Goto("recv", "t2_set")
                        ELSE UNCHANGED <<pc, android_queue>>
                     /\ UNCHANGED <<android_dropped, drops>>
    /\ UNCHANGED <<main, n_cycles, n_reconnected, stm_message, task2, locals,
                   command_queue, path_queue, action_queue, start_movement,
                   locks, session, stm_unacked, history>>

\* 181-182: time.sleep(1); self.start_movement.set()
t2_start_set ==
    /\ pc["recv"] = "t2_set"
    /\ start_movement' = TRUE
    /\ Goto("recv", "t2_release")
    /\ UNCHANGED <<link, stm_message, task2, locals, queues, android_dropped,
                   locks, session, environment, history>>

\* 185: self.lock_stm.release(); the first command (186) is put next
t2_start_release ==
    /\ pc["recv"] = "t2_release"
    /\ lock_stm' = lock_stm + 1
    /\ t2_batch' = <<FW150>>
    /\ t2_stage' = 1
    /\ Goto("recv", "t2_put")
    /\ UNCHANGED <<link, stm_message, unfinished_tasks, dists, image_1, image_2,
                   locals, queues, events, movement_lock, session,
                   environment, history>>

\* 186, 191-204, 211-248: self.command_queue.put(c), one put per step.  The
\* first two batches are followed by command_queue.join(), the last one by
\* the next pass of the receive loop.
t2_put ==
    /\ pc["recv"] = "t2_put"
    /\ command_queue' = QueuePut(command_queue, Head(t2_batch))
    /\ unfinished_tasks' = unfinished_tasks + 1
    /\ t2_batch' = Tail(t2_batch)
    /\ IF Tail(t2_batch) # <<>>
       THEN UNCHANGED pc
       ELSE Goto("recv", IF t2_stage = 3 THEN "t2_recv" ELSE "t2_join")
    /\ UNCHANGED <<link, stm_message, dists, image_1, image_2, t2_stage, locals,
                   path_queue, action_queue, android_queue, events, locks,
                   session, environment, history>>

\* the START sequence going on to the snapshot without the join
t2_no_join ==
    /\ pc["recv"] = "t2_join"
    /\ Goto("recv", "t2_snap_check")
    /\ UNCHANGED <<link, stm_message, task2, locals, queues, events, locks,
                   session, environment, history>>

\* 187, 207: self.command_queue.join()
t2_join ==
    /\ pc["recv"] = "t2_join"
    /\ unfinished_tasks = 0
    /\ Goto("recv", "t2_snap_check")
    /\ UNCHANGED <<link, stm_message, task2, locals, queues, events, locks,
                   session, environment, history>>

\* snap_and_rec, 324-326: if self.lock_stm.get_value() != 1: continue
t2_snap_and_rec_check ==
    /\ pc["recv"] = "t2_snap_check"
    /\ lock_stm = 1
    /\ Goto("recv", "t2_snap_acquire")
    /\ UNCHANGED <<link, stm_message, task2, locals, queues, events, locks,
                   session, environment, history>>

\* snap_and_rec, 327: self.lock_stm.acquire()
t2_snap_and_rec_acquire ==
    /\ pc["recv"] = "t2_snap_acquire"
    /\ lock_stm > 0
    /\ lock_stm' = lock_stm - 1
    /\ Goto("recv", "t2_snap_post")
    /\ UNCHANGED <<link, stm_message, task2, locals, queues, events,
                   movement_lock, session, environment, history>>

\* snap_and_rec, 328-333: the capture and the POST to the vision service
t2_snap_and_rec_post ==
    /\ pc["recv"] = "t2_snap_post"
    /\ \E response \in VisionResponses : snap_resp' = response
    /\ Goto("recv", "t2_snap_release")
    /\ UNCHANGED <<link, stm_message, task2, command, snap_arg, algo_req,
                   algo_resp, algo_i, queues, events, locks, session,
                   environment, history>>

\* snap_and_rec, 335-351: self.lock_stm.release() on either status; the
\* result is 0 on a status other than 200 and the image_id otherwise, and
\* it is assigned to image_1 (188) or image_2 (208)
t2_snap_and_rec_release ==
    /\ pc["recv"] = "t2_snap_release"
    /\ lock_stm' = lock_stm + 1
    /\ LET result == IF snap_resp.status_code # 200
                     THEN <<"0">> ELSE snap_resp.image_id
       IN  IF t2_stage = 1
           THEN image_1' = result /\ UNCHANGED image_2
           ELSE image_2' = result /\ UNCHANGED image_1
    /\ Goto("recv", "t2_branch")
    /\ UNCHANGED <<link, stm_message, unfinished_tasks, dists, t2_batch,
                   t2_stage, locals, queues, events, movement_lock, session,
                   environment, history>>

\* 190, 210: int(image_1), int(image_2), a ValueError on a result that is
\* no number; the branch chooses the commands to put next
t2_branch ==
    /\ pc["recv"] = "t2_branch"
    /\ LET image == IF t2_stage = 1 THEN image_1 ELSE image_2 IN
       IF IsDigits(image)
       THEN /\ t2_batch' = IF t2_stage = 1 THEN Batch1(image) ELSE Batch2(image)
            /\ t2_stage' = t2_stage + 1
            /\ Goto("recv", "t2_put")
       ELSE /\ Goto("recv", "dead")
            /\ UNCHANGED <<t2_batch, t2_stage>>
    /\ UNCHANGED <<link, stm_message, unfinished_tasks, dists, image_1,
                   image_2, locals, queues, events, locks, session,
                   environment, history>>

\* the workers of Task2_backup.py at the top of their loops
Task2Start ==
    [w \in Workers |->
        CASE w = "cf" -> "t2_check"
          [] w = "ra" -> "t2_none"
          [] w = "rs" -> "t2_recv"
          [] w = "recv" -> "t2_recv"
          [] w = "sender" -> "t2_get"]

\* 44-93: as Constructed, but lock_stm has been acquired (57) and start()
\* has put its two messages
InitT2 ==
    /\ command = <<>>
    /\ snap_arg = <<>>
    /\ snap_resp = NoVision
    /\ algo_req = [w \in AlgoCallers |-> NoRequest]
    /\ algo_resp = [w \in AlgoCallers |-> NoResponse]
    /\ algo_i = [w \in AlgoCallers |-> 1]
    /\ command_queue = <<>>
    /\ path_queue = <<>>
    /\ action_queue = <<>>
    /\ android_queue = << AndroidMessage("info", "Connected to the RPi!"),
                          AndroidMessage("info", "Robot is ready!") >>
    /\ start_movement = FALSE
    /\ android_dropped = FALSE
    /\ movement_lock = FALSE
    /\ lock_stm = 0
    /\ obstacles = EmptyDict
    /\ success_obstacles = <<>>
    /\ failed_obstacles = <<>>
    /\ current_location = EmptyDict
    /\ failed_attempt = FALSE
    /\ stm_unacked = 0
    /\ n_inbound = 0
    /\ sent = <<>>
    /\ plan_requests = <<>>
    /\ plans = <<>>
    /\ vision_results = <<>>
    /\ stm_message = <<>>
    /\ unfinished_tasks = 0
    /\ dists = <<>>
    /\ image_1 = <<>>
    /\ image_2 = <<>>
    /\ t2_batch = <<>>
    /\ t2_stage = 0
    /\ pc = Task2Start
    /\ inbound = NoInbound
    /\ main = "wait"
    /\ late_drop = FALSE
    /\ n_sets = 0
    /\ n_signals = 0
    /\ n_cycles = 0
    /\ n_reconnected = 0

\* the steps of the workers of Task2_backup.py; android is the set of
\* messages the remote control may send
Task2Next(android) ==
    \/ t2_command_follower_check
    \/ t2_command_follower_acquire
    \/ t2_command_follower_get
    \/ t2_command_follower_dispatch
    \/ t2_recv_stm_recv({ACK})
    \/ t2_recv_stm_release
    \/ t2_recv_stm_task_done
    \/ t2_recv_android(android)
    \/ t2_start_set
    \/ t2_start_release
    \/ t2_put
    \/ t2_join
    \/ t2_snap_and_rec_check
    \/ t2_snap_and_rec_acquire
    \/ t2_snap_and_rec_post
    \/ t2_snap_and_rec_release
    \/ t2_branch

NextT2 == Task2Next({ControlMessage("START")})

\* Task2_backup.py from construction
SpecT2 == InitT2 /\ [][NextT2]_vars

\* the steps of command_follower, recv_stm and the START sequence of
\* recv_android in Task2_backup.py, for the fairness conditions; recv_stm's
\* read is fair because the motion controller acknowledges what it was sent
Task2Worker(w) ==
    CASE w = "cf" -> \/ t2_command_follower_check
                     \/ t2_command_follower_acquire
                     \/ t2_command_follower_get
                     \/ t2_command_follower_dispatch
      [] w = "rs" -> \/ t2_recv_stm_recv({ACK})
                     \/ t2_recv_stm_release
                     \/ t2_recv_stm_task_done
      [] w = "recv" -> \/ t2_start_set
                       \/ t2_start_release
                       \/ t2_put
                       \/ t2_join
                       \/ t2_snap_and_rec_check
                       \/ t2_snap_and_rec_acquire
                       \/ t2_snap_and_rec_post
                       \/ t2_snap_and_rec_release
                       \/ t2_branch

\* Task2_backup.py from construction, its workers scheduled fairly
SpecT2Fair ==
    /\ InitT2
    /\ [][NextT2]_vars
    /\ \A w \in {"cf", "rs", "recv"} : WF_vars(Task2Worker(w))

\* android_sender of Task2_backup.py, 139-149: the get and the send, whose
\* OSError sets android_dropped; failing tells which messages the control
\* link may fail to write
t2_android_sender(failing) ==
    /\ pc["sender"] = "t2_get"
    /\ android_queue # <<>>
    /\ android_queue' = Tail(android_queue)
    /\ \E ok \in (IF Head(android_queue) \in failing THEN BOOLEAN ELSE {TRUE}) :
          IF ok THEN UNCHANGED <<android_dropped, drops>> ELSE SetDropped
    /\ UNCHANGED <<inbound, main, n_cycles, n_reconnected, stm_message, task2,
                   pc, locals, command_queue, path_queue, action_queue,
                   start_movement, locks, session, environment, history>>

\* the answer to START, during whose write the control link may drop
StartingRobot == { AndroidMessage("info", "Starting robot!") }

\* the steps of the main process of Task2_backup.py, reconnect_android
\* (99-133), which has the text of the one of Task1_upgrade.py
Task2Reconnect ==
    \/ reconnect_android_wait
    \/ reconnect_android_kill
    \/ reconnect_android_restart(Task2Start)
    \/ reconnect_android_put
    \/ reconnect_android_clear

\* a remote control that sends START once and STOP afterwards, which
\* recv_android ignores (172-175)
StartOnce ==
    IF n_inbound = 0 THEN {ControlMessage("START")} ELSE {ControlMessage("STOP")}

\* Task2_backup.py with its main process and android_sender, on a control
\* link that may drop while the answer to START is written
NextT2Link ==
    \/ Task2Next(StartOnce)
    \/ t2_android_sender(StartingRobot)
    \/ Task2Reconnect

SpecT2Link ==
    /\ InitT2
    /\ [][NextT2Link]_vars
    /\ WF_vars(Task2Reconnect)
    /\ WF_vars(t2_android_sender(StartingRobot))
    /\ \A w \in {"cf", "rs", "recv"} : WF_vars(Task2Worker(w))

\* Either program: a run of Task1.py with motion armed, or a run of
\* Task2_backup.py.  The labels of the two programs are disjoint, so a run
\* stays within the program it started in.
InitTask1Or2 == InitArmed \/ InitT2

NextTask1Or2 == Next \/ NextT2

SpecTask1Or2 == InitTask1Or2 /\ [][NextTask1Or2]_vars

\* Task1_upgrade.py, with acknowledgments that answer no command, or
\* Task2_backup.py: the two programs that have the semaphore lock_stm.
\* Their labels are disjoint as well.
InitLockStm == InitUp \/ InitT2

NextLockStm == NextUpAcks \/ NextT2

SpecLockStm == InitLockStm /\ [][NextLockStm]_vars

(***************************************************************************)
(* Properties.                                                             *)
(***************************************************************************)

\* A motion command is one the motion controller executes; the end-of-path
\* sentinel is none, though it carries the prefix SS.
IsMotion(c) == StartsWithAny(c, stm32_prefixes) /\ c # SSSSS

Motion(cmds) == SelectSeq(cmds, IsMotion)

IsPrefix(s, t) == Len(s) <= Len(t) /\ SubSeq(t, 1, Len(s)) = s

\* the commands sent and not yet acknowledged (the controller acknowledges
\* in the order of sending)
InFlight == SubSeq(sent, Len(sent) - stm_unacked + 1, Len(sent))

\* the number of acknowledgments the controller has given
Acks == Len(sent) - stm_unacked

\* snap_and_rec between the capture and its return
SnapWindow == pc["ra"] \in {"post", "release", "snap_put"}

Range(q) == { q[i] : i \in 1..Len(q) }

IsSnap(action) == action.cat = "snap"

\* The activities lock_stm guards in Task1_upgrade.py: the commands sent and
\* not yet acknowledged, and the snapshots command_follower dispatched that
\* snap_and_rec has not yet finished, which it does with its
\* lock_stm.release().
Outstanding ==
    stm_unacked + Len(SelectSeq(action_queue, IsSnap))
    + (IF pc["ra"] \in {"capture", "post", "release"} THEN 1 ELSE 0)

\* C3 (Task1_upgrade.py): at most one activity guarded by lock_stm is
\* outstanding at any time, and command_follower holds no dequeued command
\* and dequeues none (257) while one is outstanding: every step that takes
\* a command from the queue starts from a state with nothing outstanding.
C3_OneGuardedActivity ==
    /\ [](Outstanding <= 1)
    /\ [][(pc["cf"] = "get" /\ pc'["cf"] = "dispatch") => Outstanding = 0]_vars

\* C3: a snapshot is outstanding after an acknowledged motion command while
\* command_follower has further commands to take
C3_Witness ==
    /\ pc["ra"] = "post"
    /\ Len(sent) >= 1
    /\ stm_unacked = 0
    /\ pc["cf"] = "check"
    /\ command_queue # <<>>
    /\ lock_stm = 0

\* C4 (Task1.py): while one plan response is the only one that filled the
\* queues, the motion commands sent are a prefix of the motion commands of
\* that response, in its order, and they are all of them once
\* command_follower has taken every command of the plan from the queue.
C4_PlanOrder ==
    Len(plans) = 1 =>
       /\ IsPrefix(Motion(sent), Motion(plans[1].commands))
       /\ (pc["ra"] \in {"top", "get"} /\ pc["cf"] = "get" /\ command_queue = <<>>)
             => Motion(sent) = Motion(plans[1].commands)

\* C4: a plan of several motion commands has been sent to the end
C4_Witness ==
    /\ Len(plans) = 1
    /\ Len(Motion(plans[1].commands)) >= 2
    /\ Motion(sent) = Motion(plans[1].commands)
    /\ pc["ra"] \in {"top", "get"}
    /\ pc["cf"] = "get"
    /\ command_queue = <<>>

EnqueuedUnacked ==
    Motion(command_queue)
    \o (IF pc["cf"] \in {"wait", "acquire", "send"} /\ IsMotion(command)
        THEN <<command>> ELSE <<>>)
    \o Motion(InFlight)

NotIdentified ==
    { r \in Range(vision_results) : r.image_id = NA }

C9_SentinelNotSent == \A i \in 1..Len(sent) : sent[i] # SSSSS

IsUnknown(c) ==
    /\ ~StartsWithAny(c, stm32_prefixes)
    /\ ~StartsWith(c, SNAP)
    /\ c # SSSSS

\* C13 (Task1.py, Task1_upgrade.py): when command_follower dispatches a
\* command that is neither a motion, a snapshot nor the sentinel, the worker
\* terminates with an error, nothing is sent on the serial link and every
\* other worker stays where it is.
C13_UnknownCommandStopsFollower ==
    [][(/\ pc["cf"] \in {"wait", "dispatch"}
        /\ pc'["cf"] # pc["cf"]
        /\ IsUnknown(command))
          => (/\ pc'["cf"] = "dead"
              /\ sent' = sent
              /\ \A w \in Workers \ {"cf"} : pc'[w] = pc[w])]_vars

C15_AckPopsCheckpoint ==
    [][(/\ pc["rs"] # "recv"
        /\ pc'["rs"] = "recv"
        /\ path_queue # <<>>)
          => LET cur_location == Head(path_queue) IN
             /\ path_queue' = Tail(path_queue)
             /\ DOMAIN current_location' = {"x", "y", "d"}
             /\ \A k \in {"x", "y", "d"} :
                    current_location'[k] = cur_location[k]
             /\ android_queue' =
                    QueuePut(android_queue,
                             AndroidMessage("location",
                                            Pose(cur_location["x"],
                                                 cur_location["y"],
                                                 cur_location["d"])))]_vars

\* C16 (Task1.py): when recv_stm, after an acknowledgment, finds the
\* checkpoint queue empty, the worker terminates with an error, the current
\* pose is unchanged and nothing is put on the outbound queue.
C16_AckWithoutCheckpointIsFatal ==
    [][(/\ pc["rs"] = "pop"
        /\ pc'["rs"] # "pop"
        /\ path_queue = <<>>)
          => (/\ pc'["rs"] = "dead"
              /\ UNCHANGED <<current_location, android_queue>>)]_vars

\* the plan <<FL000, SSSSS>> has one checkpoint: the acknowledgment of
\* SSSSS found the queue empty (no snapshot was taken, so the mutex was held
\* when the acknowledgment released it)
C16_Witness ==
    /\ pc["rs"] = "dead"
    /\ stm_message = ACK
    /\ sent = <<FL000, SSSSS>>
    /\ stm_unacked = 0
    /\ vision_results = <<>>
    /\ path_queue = <<>>
    /\ DOMAIN current_location = {"x", "y", "d"}
    /\ current_location["d"] = 6

\* the concatenation of the sequences of a sequence
RECURSIVE Flatten(_)
Flatten(ss) == IF ss = <<>> THEN <<>> ELSE Head(ss) \o Flatten(Tail(ss))

\* the plan requests of s that are (or are not) a retry
SelectRequests(s, retrying) == SelectSeq(s, LAMBDA r : r.retrying = retrying)

\* The obstacles of the obstacles actions rpi_action has processed, in the
\* order of submission: rpi_action calls request_algo with each action's
\* list, so they are the lists of the plan requests that are no retry, and
\* of the call rpi_action is about to make.
Submitted ==
    LET made == SelectRequests(plan_requests, FALSE)
        lists == [i \in 1..Len(made) |-> made[i].obstacles]
    IN  Flatten(lists) \o (IF pc["ra"] = "algo_post"
                           THEN algo_req["ra"].obstacles
                           ELSE <<>>)

\* C17 (Task1.py, Task1_upgrade.py): the registry has exactly one entry for
\* each obstacle id ever submitted by an obstacles action, and the entry is
\* the obstacle most recently submitted with that id.
C17_RegistryLastWriteWins ==
    /\ DOMAIN obstacles = {Submitted[i].id : i \in 1..Len(Submitted)}
    /\ \A i \in 1..Len(Submitted) :
          (\A j \in (i + 1)..Len(Submitted) : Submitted[j].id # Submitted[i].id)
             => obstacles[Submitted[i].id] = Submitted[i]

\* ObstacleValue1 and then ObstacleValue2 were processed: the obstacle 1
\* was submitted twice with different coordinates
C17_Witness ==
    /\ Len(Submitted) = 3
    /\ Submitted[1] = Obstacle(1, 5, 11, 4)
    /\ Submitted[2] = Obstacle(1, 6, 11, 4)
    /\ obstacles[1] = Obstacle(1, 6, 11, 4)
    /\ DOMAIN obstacles = {1, 2}

\* the request carries every obstacle of the registry and nothing else
CarriesRegistry(req, registry) ==
    Range(req.obstacles) = {registry[k] : k \in DOMAIN registry}

\* the request carries the pose, when one is known
CarriesPose(req, pose) ==
    DOMAIN pose = {"x", "y", "d"}
       => /\ req.robot_x = pose["x"]
          /\ req.robot_y = pose["y"]
          /\ req.robot_dir = pose["d"]

Replacing(w) ==
    pc[w] \in {"clear_cmd", "clear_cmd_get", "clear_path", "clear_path_get",
               "put_cmd", "put_path"}

C20_FailedPlanLeavesQueues ==
    [][\A w \in AlgoCallers :
          (/\ pc[w] = "algo_post"
           /\ pc'[w] # "algo_post"
           /\ algo_resp'[w].status_code # 200)
             => (/\ pc'[w] = AfterAlgo(w)
                 /\ UNCHANGED <<command_queue, path_queue>>
                 /\ \A v \in Workers : pc'[v] = "dead" => pc[v] = "dead")]_vars

\* the second plan request failed while the queues held the first plan
C20_Witness ==
    /\ pc["ra"] = "top"
    /\ algo_resp["ra"].status_code = 500
    /\ Len(plan_requests) = 2
    /\ Len(plans) = 1
    /\ command_queue # <<>>
    /\ path_queue # <<>>

\* C21 (Task1.py, Task1_upgrade.py): when recv_android reads the control
\* message START while command_queue is empty and motion is not armed, it
\* puts exactly one error message on android_queue, start_movement stays
\* unset, no other shared state changes and the worker is back at its read.
C21_StartWithoutPlan ==
    [][(/\ n_inbound' # n_inbound
        /\ inbound' = ControlMessage("START")
        /\ command_queue = <<>>
        /\ ~start_movement)
          => (/\ android_queue' =
                    QueuePut(android_queue,
                             AndroidMessage("error", "Empty obstacles"))
              /\ pc'["recv"] = "recv"
              /\ UNCHANGED <<start_movement, android_dropped, command_queue,
                             path_queue, action_queue, locks, session>>)]_vars

\* C22 (Task1.py, Task1_upgrade.py): nothing is sent on the serial link
\* before motion is armed, that is before recv_android has set
\* start_movement on a START read with a nonempty command_queue.
C22_NoMotionBeforeArming == sent # <<>> => start_movement

\* an obstacles message and then START were read, and motion is not armed
ObstaclesThenStart ==
    /\ ~start_movement
    /\ inbound = ControlMessage("START")
    /\ action_queue # <<>> \/ plan_requests # <<>>

\* every motion command of the latest plan has been sent
PlanSent ==
    /\ plans # <<>>
    /\ \A c \in Range(plans[Len(plans)].commands) :
          IsMotion(c) => c \in Range(sent)

\* C23 (Task1.py): from construction, after an obstacles message followed
\* by START, with fair workers and an acknowledging motion controller,
\* every motion command of the plan is eventually sent.
C23_PlanEventuallySent == ObstaclesThenStart ~> PlanSent

\* C24 (Task1.py, Task1_upgrade.py): when a read of the control link raises
\* OSError, recv_android sets android_dropped and stays in its loop, at the
\* read.
C24_ReadFailureRaisesSignal ==
    [][(n_inbound' # n_inbound /\ inbound'.kind = "oserror")
          => (/\ android_dropped'
              /\ pc["recv"] = "recv"
              /\ pc'["recv"] = "recv")]_vars

\* the first read failed, and the main process has not yet reacted
C24_Witness ==
    /\ inbound.kind = "oserror"
    /\ n_inbound = 1
    /\ n_sets = 1
    /\ android_dropped
    /\ pc["recv"] = "recv"
    /\ main = "wait"

\* C25 (Task1_upgrade.py): there are never more reconnection cycles than
\* link-drop signals (a set() of an event that is already set is no new
\* signal), every cycle puts exactly one "You are reconnected!" message, a
\* cycle starts only when the previous one is complete, and a signal the
\* main process waits for is followed by a cycle.
C25_OneCyclePerSignal ==
    /\ [](/\ n_cycles <= n_signals
          /\ n_reconnected <= n_cycles
          /\ n_cycles <= n_reconnected + 1
          /\ main \in {"wait", "clear"} => n_reconnected = n_cycles)
    /\ [][n_cycles' # n_cycles
             => (/\ n_cycles' = n_cycles + 1
                 /\ main = "wait"
                 /\ android_dropped
                 /\ n_reconnected = n_cycles)]_vars
    /\ (main = "wait" /\ android_dropped) ~> main = "clear"

\* the signal was raised twice, one cycle ran and is complete, and the main
\* process waits for the next signal
C25_Witness ==
    /\ n_sets = 2
    /\ n_signals = 1
    /\ n_cycles = 1
    /\ n_reconnected = 1
    /\ main = "wait"
    /\ ~android_dropped
    /\ ~late_drop

\* C26 (Task1_upgrade.py): a link drop that the restarted link workers
\* signal while the cycle that restarted them has not yet cleared the event
\* is followed by the start of another reconnection cycle.
C26_LateDropNotLost == late_drop ~> main = "kill"

\* C27 (Task1.py): from construction, after a read of the control link
\* failed and android_dropped was set, the two link workers are stopped and
\* restarted and the message "You are reconnected!" is queued (and then
\* sent).
C27_DropLeadsToReconnection ==
    (inbound.kind = "oserror" /\ android_dropped /\ ~start_movement)
       ~> (n_cycles > 0 /\ n_reconnected > 0)

Capturing == pc["recv"] \in {"t2_snap_post", "t2_snap_release"}

\* C30 (Task2_backup.py): while a snapshot of the START sequence is being
\* taken, every command put on command_queue before it has been sent and
\* acknowledged (none is queued, none is held by command_follower, none is
\* unacknowledged), and nothing is sent on the serial link.
C30_SnapshotAfterMotion ==
    /\ [](Capturing => (/\ command_queue = <<>>
                        /\ pc["cf"] # "t2_dispatch"
                        /\ stm_unacked = 0
                        /\ unfinished_tasks = 0))
    /\ [][Capturing => sent' = sent]_vars

\* the second snapshot is being taken, after FW150 and the six commands of
\* the first branch
C30_Witness ==
    /\ pc["recv"] = "t2_snap_post"
    /\ t2_stage = 2
    /\ Len(sent) = 7

(***************************************************************************)
(* The semaphore lock_stm and the lock movement_lock                       *)
(***************************************************************************)

\* C31: in Task1_upgrade.py and Task2_backup.py the value of the semaphore
\* lock_stm is always 0 or 1, whatever acknowledgments (duplicate or
\* unsolicited ones included), snapshot completions and START messages
\* arrive.
C31_LockStmBinary == lock_stm \in {0, 1}

Clearing(w) ==
    pc[w] \in {"clear_cmd", "clear_cmd_get", "clear_path", "clear_path_get"}

InSnapAndRec ==
    pc["recv"] \in {"t2_snap_check", "t2_snap_acquire", "t2_snap_post",
                    "t2_snap_release"}

\* C33 (Task2_backup.py): once all queued motion commands are acknowledged
\* and recv_android calls snap_and_rec, snap_and_rec eventually acquires
\* lock_stm and returns, under weak fairness.
C33_SnapshotEventuallyReturns ==
    (pc["recv"] = "t2_snap_check" /\ unfinished_tasks = 0) ~> ~InSnapAndRec

(***************************************************************************)
(* The pose and the follower                                               *)
(***************************************************************************)

C36_NoOutboundLost ==
    [][Len(android_queue') < Len(android_queue) => n_sets' = n_sets]_vars

(***************************************************************************)
(* Inbound text that is no JSON                                            *)
(***************************************************************************)

\* C37 (Task1.py, Task1_upgrade.py): recv_android keeps running after an
\* inbound message that is not valid JSON: the message is dropped and
\* recv_android is back at its read, so that later obstacle and START
\* messages are processed.
C37_MalformedIsDropped == inbound.kind = "invalid" => pc["recv"] = "recv"

(***************************************************************************)
(* Reconnection during the START sequence of Task2_backup.py               *)
(***************************************************************************)

\* recv_android of Task2_backup.py is inside its START sequence (177-249)
InStartSequence ==
    pc["recv"] \in {"t2_set", "t2_release", "t2_put", "t2_join", "t2_branch"}
    \/ InSnapAndRec

\* C38 (Task2_backup.py): a reconnection cycle that kills recv_android at
\* any point of its START sequence never leaves lock_stm permanently held:
\* lock_stm is eventually released, so that command_follower can send the
\* commands still in the command queue.
C38_KillLeavesLockStmFree ==
    (main = "kill" /\ InStartSequence) ~> lock_stm >= 1

=========================================================================
